---- MODULE Spec2Model ----
(***************************************************************************)
(* Model of the Graphiti deployment utilities:                             *)
(*   - wait_for_neo4j, the retry/backoff driver (server/graph_service/     *)
(*     startup.py and, verbatim, server/graph_service/main.py);            *)
(*   - verify_deployment.py, the verification aggregator;                  *)
(*   - server/graph_service/healthcheck.py, the health-check script;       *)
(*   - the lifespan hook of server/graph_service/main.py, alone or served  *)
(*     by main() of server/graph_service/startup.py, with the two liveness *)
(*     routes and test_deployment.py as their client.                      *)
(*                                                                         *)
(* Each behaviour is one run of one entry point (variable prog).  Python   *)
(* strings are sequences of one-character strings.  Durations are exact    *)
(* fixed-point numbers: a delay of s seconds is the integer s * Scale, and *)
(* Scale is a power of 5 large enough that every multiplication by 1.2     *)
(* (= 6/5) performed below the 10 s cap is exact.  Floating-point rounding *)
(* of the Python floats is not modelled.                                   *)
(***************************************************************************)
EXTENDS Integers, Sequences, FiniteSets, TLC

VARIABLES
    prog,          \* entry point being run: "wait", "verify", "health",
                   \* "lifespan" (the app of main.py) or "startup" (startup.py)
    \* ---- wait_for_neo4j(uri, max_retries, retry_delay) ----
    wpc,           \* position in wait_for_neo4j
    uri,           \* argument uri, as passed by the caller
    max_retries,   \* argument max_retries
    delay0,        \* argument retry_delay, as passed by the caller
    retry_delay,   \* local retry_delay (current delay)
    host,          \* local host
    port,          \* local port
    attempt,       \* loop variable of  for attempt in range(max_retries)
    sock,          \* state of the socket bound to local sock
    ret,           \* value returned: "True", "False", or "none" before the return
    probes,        \* history: number of probe attempts performed
    successes,     \* history: number of probes whose connect_ex returned 0
    firstOk,       \* history: index of the first such probe (0: none yet)
    slept,         \* history: the delays passed to asyncio.sleep, in order
    \* ---- verify_deployment.main ----
    vpc,           \* position in verify_deployment.main
    env,           \* os.environ: [set: names that are set, val: name -> string]
    env_check,     \* local env_check (result of check_environment_variables)
    neo4j_ok,      \* local neo4j_ok
    server_health, \* local server_health
    api_endpoints, \* local api_endpoints / results of check_api_endpoints
    http,          \* history: outcome of each HTTP GET issued, by request name
    exit_code,     \* value returned by main (-1 until it returns)
    \* ---- healthcheck.py ----
    hpc,           \* position in the health-check script
    hresp,         \* history: outcome of urlopen
    hexit,         \* process exit code (-1 until sys.exit)
    \* ---- lifespan (main.py) and main (startup.py) ----
    lpc,           \* state of the lifespan sequencer
    spc,           \* position in main() of startup.py
    neo4j_uri,     \* settings.neo4j_uri / os.getenv('NEO4J_URI', ...)
    initCalls,     \* history: number of calls of initialize_graphiti
    initResult,    \* history: "ok" or "raised" once initialize_graphiti ended
    runs,          \* history: number of calls of wait_for_neo4j
    earlierProbes, \* history: probe attempts made by earlier calls
    sexit,         \* exit code of the startup.py process (-1 while it runs)
    \* ---- test_deployment.py, run against the app ----
    tpc,           \* position in main() of test_deployment.py
    success_count, \* local success_count
    tseen,         \* history: per request, was the app serving, and the answer
    texit          \* value returned by main (-1 until it returns)

wvars == <<wpc, uri, max_retries, delay0, retry_delay, host, port, attempt,
           sock, ret, probes, successes, firstOk, slept>>
vvars == <<vpc, env, env_check, neo4j_ok, server_health, api_endpoints, http,
           exit_code>>
hvars == <<hpc, hresp, hexit>>
lvars == <<lpc, spc, neo4j_uri, initCalls, initResult, runs, earlierProbes,
           sexit>>
tvars == <<tpc, success_count, tseen, texit>>
vars == <<prog, wvars, vvars, hvars, lvars, tvars>>

----------------------------------------------------------------------------
\* Bounds of the model

\* max_retries ranges over 0..MaxRetries and the default, 30
MaxRetries == 4

----------------------------------------------------------------------------
\* Python string helpers (strings are sequences of characters)

Min(a, b) == IF a <= b THEN a ELSE b

Whitespace == {" ", "\t", "\n"}

Digits == <<"0", "1", "2", "3", "4", "5", "6", "7", "8", "9">>

IsDigit(c) == \E i \in 1..10 : Digits[i] = c

DigitVal(c) == (CHOOSE i \in 1..10 : Digits[i] = c) - 1

\* s.startswith(p)
StartsWith(s, p) == Len(s) >= Len(p) /\ SubSeq(s, 1, Len(p)) = p

\* s[n:]
SliceFrom(s, n) == SubSeq(s, n + 1, Len(s))

\* c in s
Contains(s, c) == \E i \in 1..Len(s) : s[i] = c

\* s.split(c, 1) for a string s that contains c: <<before, after>> the first c
SplitFirst(s, c) ==
    LET i == CHOOSE k \in 1..Len(s) :
                 s[k] = c /\ \A j \in 1..(k - 1) : s[j] # c
    IN  <<SubSeq(s, 1, i - 1), SubSeq(s, i + 1, Len(s))>>

\* s.strip()
RECURSIVE LStrip(_)
LStrip(s) == IF s # <<>> /\ s[1] \in Whitespace THEN LStrip(Tail(s)) ELSE s

RECURSIVE RStrip(_)
RStrip(s) ==
    IF s # <<>> /\ s[Len(s)] \in Whitespace
    THEN RStrip(SubSeq(s, 1, Len(s) - 1)) ELSE s

Strip(s) == RStrip(LStrip(s))

\* int(s): surrounding whitespace is ignored, one optional sign, then one or
\* more decimal digits; anything else raises ValueError.
Unsigned(s) == IF s # <<>> /\ s[1] \in {"+", "-"} THEN Tail(s) ELSE s

IsIntLiteral(s) ==
    LET u == Unsigned(Strip(s))
    IN  u # <<>> /\ \A i \in 1..Len(u) : IsDigit(u[i])

RECURSIVE DigitsValue(_)
DigitsValue(u) ==
    IF u = <<>> THEN 0
    ELSE 10 * DigitsValue(SubSeq(u, 1, Len(u) - 1)) + DigitVal(u[Len(u)])

PyInt(s) ==
    LET t == Strip(s)
        v == DigitsValue(Unsigned(t))
    IN  IF t[1] = "-" THEN 0 - v ELSE v

----------------------------------------------------------------------------
\* wait_for_neo4j: constants and inputs

\* default port, used when the URI names none
DefaultPort == 7687

\* default max_retries of wait_for_neo4j
DefaultMaxRetries == 30

\* default retry_delay of wait_for_neo4j, in seconds
DefaultRetryDelay == 2

\* the cap of  min(retry_delay * 1.2, 10), in seconds
MaxDelaySec == 10

\* the multiplier 1.2 = MultNum / MultDen
MultNum == 6

MultDen == 5

\* Number of growth steps the default delay needs to reach the cap: the
\* least e with DefaultRetryDelay * 1.2^e >= MaxDelaySec.
SatExp ==
    CHOOSE e \in 0..11 :
        /\ DefaultRetryDelay * MultNum^e >= MaxDelaySec * MultDen^e
        /\ \A f \in 0..(e - 1) :
               DefaultRetryDelay * MultNum^f < MaxDelaySec * MultDen^f

\* Fixed-point unit: one second is Scale units, so that SatExp successive
\* multiplications by MultNum / MultDen of a whole number of seconds are exact.
Scale == MultDen^SatExp

MaxDelay == MaxDelaySec * Scale

\* initial delays tried, in seconds: the default, two values whose first
\* growth step crosses or sits on the cap, and one above the cap
DelaySeconds == {DefaultRetryDelay, 9, MaxDelaySec, 20}

Delays == {s * Scale : s \in DelaySeconds}

RetryCounts == (0..MaxRetries) \cup {DefaultMaxRetries}

BoltPrefix == <<"b", "o", "l", "t", ":", "/", "/">>

UriNeo4j == BoltPrefix \o <<"n", "e", "o", "4", "j", ":", "7", "6", "8", "7">>

UriDbNoPort == BoltPrefix \o <<"d", "b">>

UriBare == <<"d", "b", ":", "9", "9", "9", "9">>

UriBareNoPort == <<"d", "b">>

UriBadPort == BoltPrefix \o <<"d", "b", ":", "x", "1">>

UriTwoColons == BoltPrefix \o <<"d", "b", ":", "1", ":", "2">>

Uris == {UriNeo4j, UriDbNoPort, UriBare, UriBareNoPort, UriBadPort,
         UriTwoColons}

\* the entry points in which wait_for_neo4j runs
DriverProgs == {"wait", "lifespan", "startup"}

\* outcome of one probe's socket calls: connect_ex returned 0, connect_ex
\* returned an error number, or settimeout/connect_ex raised an Exception
ProbeOutcomes == {"connected", "refused", "raised"}

----------------------------------------------------------------------------
\* wait_for_neo4j: the code

\* if uri.startswith('bolt://'): uri = uri[6:]
StripScheme(u) == IF StartsWith(u, BoltPrefix) THEN SliceFrom(u, 6) ELSE u

\* a variant that falls back to the default port when the port is no integer
ParseUriLenient(u) ==
    LET r == StripScheme(u)
    IN  IF Contains(r, ":")
        THEN LET hp == SplitFirst(r, ":")
             IN  IF IsIntLiteral(hp[2])
                 THEN [raises |-> FALSE, host |-> hp[1], port |-> PyInt(hp[2])]
                 ELSE [raises |-> FALSE, host |-> hp[1], port |-> DefaultPort]
        ELSE [raises |-> FALSE, host |-> r, port |-> DefaultPort]

\* Extract host and port from URI.  raises = TRUE stands for the ValueError
\* of int(port_str).
ParseUri(u) ==
    LET r == StripScheme(u)
    IN  IF Contains(r, ":")
        THEN LET hp == SplitFirst(r, ":")
             IN  IF IsIntLiteral(hp[2])
                 THEN [raises |-> FALSE, host |-> hp[1], port |-> PyInt(hp[2])]
                 ELSE [raises |-> TRUE, host |-> hp[1], port |-> 0]
        ELSE [raises |-> FALSE, host |-> r, port |-> DefaultPort]

\* result of sock.connect_ex for an outcome that does not raise
ConnectEx(o) == IF o = "connected" THEN 0 ELSE 111

\* a variant that takes a non-zero connect result for success
IsReadyInverted(result) == result # 0

\* if result == 0
IsReady(result) == result = 0

\* a variant whose except clause catches nothing
CaughtByProbeNever(o) == FALSE

\* except Exception as e: everything the socket calls raise is an Exception
CaughtByProbe(o) == o = "raised"

\* a variant that also sleeps after the last attempt
SleepsAfterEvery(a, n) == a < n

\* if attempt < max_retries - 1
SleepsAfter(a, n) == a < n - 1

\* retry_delay * 1.2
Grow12(d) == (d * MultNum) \div MultDen

\* retry_delay = min(retry_delay * 1.2, 10)
NextDelay(d) == Min(Grow12(d), MaxDelay)

\* The call: lines up to the for loop.  A malformed port raises ValueError
\* out of the function; an empty range(max_retries) falls through to the
\* final  return False.
WaitParse ==
    /\ prog \in DriverProgs /\ wpc = "call"
    /\ LET p == ParseUri(uri)
       IN  IF p.raises
           THEN /\ wpc' = "raised"
                /\ UNCHANGED <<host, port, ret>>
           ELSE /\ host' = p.host
                /\ port' = p.port
                /\ IF max_retries > 0
                   THEN wpc' = "probe" /\ ret' = ret
                   ELSE wpc' = "returned" /\ ret' = "False"
    /\ UNCHANGED <<prog, uri, max_retries, delay0, retry_delay, attempt, sock,
                   probes, successes, firstOk, slept, vvars, hvars, lvars, tvars>>

\* One pass through the try block: socket(), settimeout, connect_ex, close,
\* and the test of result.  When settimeout or connect_ex raises, close() is
\* skipped and the except clause logs the failure.
WaitProbe ==
    /\ prog \in DriverProgs /\ wpc = "probe"
    /\ \E o \in ProbeOutcomes :
         /\ probes' = probes + 1
         /\ successes' = IF o = "connected" THEN successes + 1 ELSE successes
         /\ firstOk' = IF o = "connected" /\ firstOk = 0
                       THEN probes + 1 ELSE firstOk
         /\ IF o = "raised"
            THEN /\ sock' = "open"
                 /\ wpc' = IF CaughtByProbe(o) THEN "backoff" ELSE "raised"
                 /\ UNCHANGED ret
            ELSE /\ sock' = "closed"
                 /\ IF IsReady(ConnectEx(o))
                    THEN wpc' = "returned" /\ ret' = "True"
                    ELSE wpc' = "backoff" /\ UNCHANGED ret
    /\ UNCHANGED <<prog, uri, max_retries, delay0, retry_delay, host, port,
                   attempt, slept, vvars, hvars, lvars, tvars>>

\* After a failed attempt: either suspend in asyncio.sleep(retry_delay), or,
\* after the last attempt, leave the loop and return False.
WaitBackoff ==
    /\ prog \in DriverProgs /\ wpc = "backoff"
    /\ IF SleepsAfter(attempt, max_retries)
       THEN /\ wpc' = "sleeping"
            /\ slept' = Append(slept, retry_delay)
            /\ UNCHANGED ret
       ELSE /\ wpc' = "returned"
            /\ ret' = "False"
            /\ UNCHANGED slept
    /\ UNCHANGED <<prog, uri, max_retries, delay0, retry_delay, host, port,
                   attempt, sock, probes, successes, firstOk, vvars, hvars, lvars, tvars>>

\* a variant whose loop does not advance
SameAttempt(a) == a

\* for attempt in range(max_retries): the next value of attempt
NextAttempt(a) == a + 1

\* The sleep completes: grow the delay and start the next iteration.
WaitWake ==
    /\ prog \in DriverProgs /\ wpc = "sleeping"
    /\ retry_delay' = NextDelay(retry_delay)
    /\ attempt' = NextAttempt(attempt)
    /\ wpc' = "probe"
    /\ UNCHANGED <<prog, uri, max_retries, delay0, host, port, sock, ret,
                   probes, successes, firstOk, slept, vvars, hvars, lvars, tvars>>

\* The task is cancelled while suspended in asyncio.sleep, the only await of
\* the function: CancelledError is raised at the await, which no try block
\* encloses, and leaves the function.  Nothing is closed on the way out.
WaitCancel ==
    /\ prog \in DriverProgs /\ wpc = "sleeping"
    /\ wpc' = "cancelled"
    /\ UNCHANGED <<prog, uri, max_retries, delay0, retry_delay, host, port,
                   attempt, sock, ret, probes, successes, firstOk, slept,
                   vvars, hvars, lvars, tvars>>

WaitNext == WaitParse \/ WaitProbe \/ WaitBackoff \/ WaitWake \/ WaitCancel

WaitIdle ==
    /\ wpc = "idle" /\ uri = <<>> /\ max_retries = 0 /\ delay0 = 0
    /\ retry_delay = 0 /\ host = <<>> /\ port = 0 /\ attempt = 0
    /\ sock = "none" /\ ret = "none" /\ probes = 0 /\ successes = 0
    /\ firstOk = 0 /\ slept = <<>>

WaitInit ==
    /\ wpc = "call"
    /\ uri \in Uris
    /\ max_retries \in RetryCounts
    /\ delay0 \in Delays
    /\ retry_delay = delay0
    /\ host = <<>> /\ port = 0 /\ attempt = 0
    /\ sock = "none" /\ ret = "none" /\ probes = 0 /\ successes = 0
    /\ firstOk = 0 /\ slept = <<>>

----------------------------------------------------------------------------
\* verify_deployment.py: inputs

RequiredVars == {"OPENAI_API_KEY", "NEO4J_USER", "NEO4J_PASSWORD"}

OptionalVars == {"MODEL_NAME", "EMBEDDING_MODEL_NAME", "SEMAPHORE_LIMIT"}

EnvNames == RequiredVars \cup OptionalVars \cup {"NEO4J_URI"}

\* values a set variable may hold: empty, whitespace only, or a real value
RequiredValues == {<<>>, <<" ", "\t">>, <<"k">>}

OptionalValues == {<<"m">>}

UriValues == {UriNeo4j, UriBare}

ValuesOf(name) ==
    IF name \in RequiredVars THEN RequiredValues
    ELSE IF name \in OptionalVars THEN OptionalValues
    ELSE UriValues

\* An environment: the names that are set and their values (the value of a
\* name that is not set is kept at the empty string and never read).  Built
\* from one choice per name, Unset standing for a name that is not set.
Unset == <<"unset">>

EnvOf(choice) ==
    [set |-> {n \in EnvNames : choice[n] # Unset},
     val |-> [n \in EnvNames |-> IF choice[n] = Unset THEN <<>> ELSE choice[n]]]

Environments ==
    {EnvOf(r @@ o @@ u) :
        r \in [RequiredVars -> RequiredValues \cup {Unset}],
        o \in [OptionalVars -> OptionalValues \cup {Unset}],
        u \in [{"NEO4J_URI"} -> UriValues \cup {Unset}]}

NoResponse == [status |-> 0, exc |-> "unsent"]

\* What one HTTP GET can do: answer with a status, or raise (the 10 s timeout
\* raises asyncio.TimeoutError, a refused connection an aiohttp.ClientError).
HttpOutcomes ==
    {[status |-> 200, exc |-> "none"],
     [status |-> 500, exc |-> "none"],
     [status |-> 0, exc |-> "TimeoutError"],
     [status |-> 0, exc |-> "ClientConnectorError"]}

\* the exception classes that derive from Exception
ExceptionClasses == {"TimeoutError", "ClientConnectorError", "HTTPError",
                     "URLError", "ConnectionError"}

\* endpoints = {'root': '/', 'healthcheck': '/healthcheck'}, in dict order
Endpoints == <<"root", "healthcheck">>

----------------------------------------------------------------------------
\* verify_deployment.py: the code

\* os.getenv(name): is the value None?
IsNone(e, name) == name \notin e.set

\* os.getenv(name, default)
Getenv(e, name, default) == IF name \in e.set THEN e.val[name] ELSE default

\* a variant that forgets strip(): whitespace counts as a value
VarIsSetNoStrip(e, name) == ~IsNone(e, name) /\ e.val[name] # <<>>

\* value is not None and value.strip() != ''
VarIsSet(e, name) == ~IsNone(e, name) /\ Strip(e.val[name]) # <<>>

\* check_environment_variables: one entry per required and per optional name
CheckEnvironmentVariables(e) ==
    [n \in RequiredVars \cup OptionalVars |-> VarIsSet(e, n)]

\* a variant that also wants a password
CheckNeo4jWithPassword(u, user, password) ==
    StartsWith(u, BoltPrefix) /\ password # <<>>

\* check_neo4j_connection: only the format of the URI is looked at
CheckNeo4jConnection(u, user, password) == StartsWith(u, BoltPrefix)

\* a variant without the except clauses
CatchesNothing(exc) == FALSE

\* except Exception as e
Catches(exc) == exc \in ExceptionClasses

\* response.status == 200
StatusOk(status) == status = 200

\* check_server_health, given what the GET did
CheckServerHealth(o) == IF o.exc # "none" THEN FALSE ELSE StatusOk(o.status)

\* check_api_endpoints, one endpoint: results[name] = response.status == 200,
\* or False in the except clause
EndpointOk(o) == IF o.exc # "none" THEN FALSE ELSE StatusOk(o.status)

\* a variant that requires every entry of env_check, optional names included
AllEnvOk(check) == \A n \in DOMAIN check : check[n]

\* all(env_check.get(var, False) for var in the three required names)
RequiredEnvOk(check) ==
    \A n \in RequiredVars : IF n \in DOMAIN check THEN check[n] ELSE FALSE

\* all(api_endpoints.values())
ApiOk(results) == \A n \in DOMAIN results : results[n]

\* a variant that leaves the liveness check out of the conjunction
OverallOkNoHealth(check, n4j, health, results) ==
    RequiredEnvOk(check) /\ n4j /\ ApiOk(results)

\* overall_ok = required_env_ok and neo4j_ok and server_health and api_ok
OverallOk(check, n4j, health, results) ==
    RequiredEnvOk(check) /\ n4j /\ health /\ ApiOk(results)

\* return 0 if overall_ok else 1
ExitStatus(ok) == IF ok THEN 0 ELSE 1

\* env_check = check_environment_variables()
VerifyEnv ==
    /\ prog = "verify" /\ vpc = "env"
    /\ env_check' = CheckEnvironmentVariables(env)
    /\ vpc' = "neo4j"
    /\ UNCHANGED <<prog, env, neo4j_ok, server_health, api_endpoints, http,
                   exit_code, wvars, hvars, lvars, tvars>>

\* the three os.getenv calls and  neo4j_ok = await check_neo4j_connection(...)
VerifyNeo4j ==
    /\ prog = "verify" /\ vpc = "neo4j"
    /\ neo4j_ok' = CheckNeo4jConnection(Getenv(env, "NEO4J_URI", UriNeo4j),
                                        Getenv(env, "NEO4J_USER", <<"n", "e", "o", "4", "j">>),
                                        Getenv(env, "NEO4J_PASSWORD", <<>>))
    /\ vpc' = "health"
    /\ UNCHANGED <<prog, env, env_check, server_health, api_endpoints, http,
                   exit_code, wvars, hvars, lvars, tvars>>

\* server_health = await check_server_health(server_url)
VerifyHealth ==
    /\ prog = "verify" /\ vpc = "health"
    /\ \E o \in HttpOutcomes :
         /\ http' = [http EXCEPT !["health"] = o]
         /\ IF o.exc # "none" /\ ~Catches(o.exc)
            THEN vpc' = "crashed" /\ UNCHANGED server_health
            ELSE vpc' = "api" /\ server_health' = CheckServerHealth(o)
    /\ UNCHANGED <<prog, env, env_check, neo4j_ok, api_endpoints, exit_code,
                   wvars, hvars, lvars, tvars>>

\* One iteration of the loop of check_api_endpoints, for the next endpoint in
\* dict order; after the last one the function returns the results.
VerifyEndpoint ==
    /\ prog = "verify" /\ vpc = "api"
    /\ LET name == Endpoints[Cardinality(DOMAIN api_endpoints) + 1]
       IN  \E o \in HttpOutcomes :
             /\ http' = [http EXCEPT ![name] = o]
             /\ IF o.exc # "none" /\ ~Catches(o.exc)
                THEN vpc' = "crashed" /\ UNCHANGED api_endpoints
                ELSE /\ api_endpoints' = (name :> EndpointOk(o)) @@ api_endpoints
                     /\ vpc' = IF Cardinality(DOMAIN api_endpoints) + 1
                                      = Len(Endpoints)
                               THEN "summary" ELSE "api"
    /\ UNCHANGED <<prog, env, env_check, neo4j_ok, server_health, exit_code,
                   wvars, hvars, lvars, tvars>>

\* The summary and  return 0 if overall_ok else 1
VerifySummary ==
    /\ prog = "verify" /\ vpc = "summary"
    /\ exit_code' = ExitStatus(OverallOk(env_check, neo4j_ok, server_health,
                                         api_endpoints))
    /\ vpc' = "done"
    /\ UNCHANGED <<prog, env, env_check, neo4j_ok, server_health,
                   api_endpoints, http, wvars, hvars, lvars, tvars>>

\* check_api_endpoints as a whole, given what each GET did
CheckApiEndpoints(h) ==
    [n \in {Endpoints[i] : i \in 1..Len(Endpoints)} |-> EndpointOk(h[n])]

\* The value main returns in environment e when the GETs do what h says.
MainResult(e, h) ==
    ExitStatus(OverallOk(
        CheckEnvironmentVariables(e),
        CheckNeo4jConnection(Getenv(e, "NEO4J_URI", UriNeo4j),
                             Getenv(e, "NEO4J_USER", <<"n", "e", "o", "4", "j">>),
                             Getenv(e, "NEO4J_PASSWORD", <<>>)),
        CheckServerHealth(h["health"]),
        CheckApiEndpoints(h)))

VerifyNext ==
    VerifyEnv \/ VerifyNeo4j \/ VerifyHealth \/ VerifyEndpoint \/ VerifySummary

NoEnv == [set |-> {}, val |-> [n \in EnvNames |-> <<>>]]

NoHttp == [r \in {"health", "root", "healthcheck"} |-> NoResponse]

VerifyIdle ==
    /\ vpc = "idle" /\ env = NoEnv /\ env_check = <<>> /\ neo4j_ok = FALSE
    /\ server_health = FALSE /\ api_endpoints = <<>> /\ http = NoHttp
    /\ exit_code = -1

VerifyInit ==
    /\ vpc = "env" /\ env \in Environments /\ env_check = <<>>
    /\ neo4j_ok = FALSE /\ server_health = FALSE /\ api_endpoints = <<>>
    /\ http = NoHttp /\ exit_code = -1

----------------------------------------------------------------------------
\* healthcheck.py

\* What urlopen can do: return a response, or raise.  urllib turns every
\* status outside 200..299 into an HTTPError.
UrlopenOutcomes ==
    {[status |-> 200, exc |-> "none"],
     [status |-> 204, exc |-> "none"],
     [status |-> 404, exc |-> "HTTPError"],
     [status |-> 500, exc |-> "HTTPError"],
     [status |-> 0, exc |-> "URLError"],
     [status |-> 0, exc |-> "TimeoutError"]}

\* a variant that takes any answered request for healthy
CheckHealthAnyStatus(o) ==
    IF o.exc # "none"
    THEN IF Catches(o.exc) THEN "False" ELSE "raised"
    ELSE "True"

\* check_health, given what urlopen did: "raised" when an exception escapes
CheckHealth(o) ==
    IF o.exc # "none"
    THEN IF Catches(o.exc) THEN "False" ELSE "raised"
    ELSE IF StatusOk(o.status) THEN "True" ELSE "False"

\* if check_health(): sys.exit(0) else: sys.exit(1)
HealthExit(healthy) == IF healthy = "True" THEN 0 ELSE 1

\* the call of check_health()
HealthCheck ==
    /\ prog = "health" /\ hpc = "check"
    /\ \E o \in UrlopenOutcomes :
         /\ hresp' = o
         /\ hpc' = IF CheckHealth(o) = "raised" THEN "crashed"
                   ELSE IF CheckHealth(o) = "True" THEN "healthy"
                   ELSE "unhealthy"
    /\ UNCHANGED <<prog, hexit, wvars, vvars, lvars, tvars>>

\* sys.exit(0) or sys.exit(1)
HealthDone ==
    /\ prog = "health" /\ hpc \in {"healthy", "unhealthy"}
    /\ hexit' = HealthExit(IF hpc = "healthy" THEN "True" ELSE "False")
    /\ hpc' = "exited"
    /\ UNCHANGED <<prog, hresp, wvars, vvars, lvars, tvars>>

HealthNext == HealthCheck \/ HealthDone

HealthIdle == hpc = "idle" /\ hresp = NoResponse /\ hexit = -1

HealthInit == hpc = "check" /\ hresp = NoResponse /\ hexit = -1

----------------------------------------------------------------------------
\* main.py: the lifespan hook and the liveness routes

\* the states of the startup sequencer, in order; "Failed" (an exception left
\* the hook before the yield) is not one of them
Phases == <<"Idle", "WaitingForDependency", "InitializingApplication",
            "Serving", "ShuttingDown", "Stopped">>

\* values of settings.neo4j_uri
SettingsUris == Uris

\* values of os.getenv('NEO4J_URI', 'bolt://neo4j:7687') in startup.py
StartupUris == {UriNeo4j, UriBare, UriBadPort}

\* wait_for_neo4j(u) is called with the default max_retries and retry_delay
CallWait(u) ==
    /\ wpc' = "call"
    /\ uri' = u
    /\ max_retries' = DefaultMaxRetries
    /\ delay0' = DefaultRetryDelay * Scale
    /\ retry_delay' = DefaultRetryDelay * Scale
    /\ host' = <<>> /\ port' = 0 /\ attempt' = 0
    /\ sock' = "none" /\ ret' = "none" /\ probes' = 0 /\ successes' = 0
    /\ firstOk' = 0 /\ slept' = <<>>
    /\ runs' = runs + 1
    /\ earlierProbes' = earlierProbes + probes

\* the hook runs when the app is started: directly, or by uvicorn.run in
\* startup.py
LifespanActive == prog = "lifespan" \/ (prog = "startup" /\ spc = "serving")

\* a variant that gives up when the wait returned False
LifespanProceedsOnSuccess(r) == r = "True"

\* if not await wait_for_neo4j(neo4j_uri): logger.error("... but continuing
\* startup"): the hook goes on whatever the wait returned
LifespanProceeds(r) == TRUE

\* a variant that lets a failed initialization leave the hook
InitFailureRaises(o) == FALSE

\* except Exception as e: logger.error(...)  "Continue startup even if
\* Graphiti fails to initialize"
InitFailureSwallowed(o) == TRUE

\* settings = get_settings(); the call of wait_for_neo4j(settings.neo4j_uri)
LifespanStart ==
    /\ LifespanActive /\ lpc = "Idle"
    /\ lpc' = "WaitingForDependency"
    /\ CallWait(neo4j_uri)
    /\ UNCHANGED <<prog, spc, neo4j_uri, initCalls, initResult, sexit, vvars,
                   hvars, tvars>>

\* wait_for_neo4j has returned: the call of initialize_graphiti(settings)
LifespanInitialize ==
    /\ LifespanActive /\ lpc = "WaitingForDependency" /\ wpc = "returned"
    /\ IF LifespanProceeds(ret)
       THEN lpc' = "InitializingApplication" /\ initCalls' = initCalls + 1
       ELSE lpc' = "Failed" /\ UNCHANGED initCalls
    /\ UNCHANGED <<prog, spc, neo4j_uri, initResult, runs, earlierProbes,
                   sexit, wvars, vvars, hvars, tvars>>

\* wait_for_neo4j raised (ValueError of the port, or CancelledError): no try
\* block of the hook encloses the call, so the exception leaves the hook
LifespanWaitRaised ==
    /\ LifespanActive /\ lpc = "WaitingForDependency"
    /\ wpc \in {"raised", "cancelled"}
    /\ lpc' = "Failed"
    /\ UNCHANGED <<prog, spc, neo4j_uri, initCalls, initResult, runs,
                   earlierProbes, sexit, wvars, vvars, hvars, tvars>>

\* initialize_graphiti ends, normally or with an Exception; then the yield
LifespanInitDone ==
    /\ LifespanActive /\ lpc = "InitializingApplication"
    /\ \E o \in {"ok", "raised"} :
         /\ initResult' = o
         /\ lpc' = IF o = "raised" /\ ~InitFailureSwallowed(o)
                   THEN "Failed" ELSE "Serving"
    /\ UNCHANGED <<prog, spc, neo4j_uri, initCalls, runs, earlierProbes,
                   sexit, wvars, vvars, hvars, tvars>>

\* the runtime resumes the hook after the yield
LifespanShutdown ==
    /\ LifespanActive /\ lpc = "Serving"
    /\ lpc' = "ShuttingDown"
    /\ UNCHANGED <<prog, spc, neo4j_uri, initCalls, initResult, runs,
                   earlierProbes, sexit, wvars, vvars, hvars, tvars>>

\* logger.info("Shutting down Graphiti server"); the hook ends
LifespanStopped ==
    /\ LifespanActive /\ lpc = "ShuttingDown"
    /\ lpc' = "Stopped"
    /\ UNCHANGED <<prog, spc, neo4j_uri, initCalls, initResult, runs,
                   earlierProbes, sexit, wvars, vvars, hvars, tvars>>

LifespanNext ==
    \/ LifespanStart
    \/ LifespanInitialize
    \/ LifespanWaitRaised
    \/ LifespanInitDone
    \/ LifespanShutdown
    \/ LifespanStopped

\* @app.get('/'): JSONResponse(..., status_code=200)
RootResponse == [status |-> 200, body |-> "Graphiti Knowledge Server"]

\* a variant that reports a failed initialization
HealthcheckDegraded ==
    IF initResult = "ok" /\ ret = "True"
    THEN [status |-> 200, body |-> "healthy"]
    ELSE [status |-> 503, body |-> "unhealthy"]

\* @app.get('/healthcheck'): JSONResponse({'status': 'healthy'}, 200)
HealthcheckResponse == [status |-> 200, body |-> "healthy"]

\* the answer of the route of an endpoint
Route(path) == IF path = "root" THEN RootResponse ELSE HealthcheckResponse

\* What a GET of the endpoint does: the app answers while it is Serving; in
\* every other state nothing listens on the port and the request raises.
Get(path) ==
    IF lpc = "Serving"
    THEN [status |-> Route(path).status, exc |-> "none",
          body |-> Route(path).body]
    ELSE [status |-> 0, exc |-> "ConnectionError", body |-> ""]

----------------------------------------------------------------------------
\* startup.py: main

\* a variant that starts the server whatever the wait returned
StartupNeverExits(r) == FALSE

\* if not await wait_for_neo4j(neo4j_uri): ... sys.exit(1)
StartupExitsOnFailure(r) == r # "True"

\* neo4j_uri = os.getenv(...); the call of wait_for_neo4j(neo4j_uri)
StartupCall ==
    /\ prog = "startup" /\ spc = "start"
    /\ spc' = "waiting"
    /\ CallWait(neo4j_uri)
    /\ UNCHANGED <<prog, lpc, neo4j_uri, initCalls, initResult, sexit, vvars,
                   hvars, tvars>>

\* wait_for_neo4j has returned: exit with status 1, or go on to the server
StartupAfterWait ==
    /\ prog = "startup" /\ spc = "waiting" /\ wpc = "returned"
    /\ IF StartupExitsOnFailure(ret)
       THEN spc' = "exited" /\ sexit' = 1
       ELSE spc' = "uvicorn" /\ UNCHANGED sexit
    /\ UNCHANGED <<prog, lpc, neo4j_uri, initCalls, initResult, runs,
                   earlierProbes, wvars, vvars, hvars, tvars>>

\* wait_for_neo4j raised: the call is outside the try block of main, the
\* exception ends asyncio.run(main()) and the interpreter exits with 1
StartupWaitRaised ==
    /\ prog = "startup" /\ spc = "waiting" /\ wpc \in {"raised", "cancelled"}
    /\ spc' = "exited" /\ sexit' = 1
    /\ UNCHANGED <<prog, lpc, neo4j_uri, initCalls, initResult, runs,
                   earlierProbes, wvars, vvars, hvars, tvars>>

\* uvicorn.run(app, ...): it serves the app, whose lifespan hook then runs,
\* or it raises an Exception, which main answers with sys.exit(1)
StartupRun ==
    /\ prog = "startup" /\ spc = "uvicorn"
    /\ \E o \in {"serves", "raises"} :
         IF o = "raises"
         THEN spc' = "exited" /\ sexit' = 1
         ELSE spc' = "serving" /\ UNCHANGED sexit
    /\ UNCHANGED <<prog, lpc, neo4j_uri, initCalls, initResult, runs,
                   earlierProbes, wvars, vvars, hvars, tvars>>

\* the server has stopped: uvicorn.run returns, main returns
StartupReturn ==
    /\ prog = "startup" /\ spc = "serving" /\ lpc = "Stopped"
    /\ spc' = "exited" /\ sexit' = 0
    /\ UNCHANGED <<prog, lpc, neo4j_uri, initCalls, initResult, runs,
                   earlierProbes, wvars, vvars, hvars, tvars>>

StartupNext ==
    \/ StartupCall
    \/ StartupAfterWait
    \/ StartupWaitRaised
    \/ StartupRun
    \/ StartupReturn

----------------------------------------------------------------------------
\* test_deployment.py, run against the app of main.py

\* endpoints = [("http://localhost:8000/", ...), (".../healthcheck", ...)]
TestEndpoints == <<"root", "healthcheck">>

\* test_endpoint, given what requests.get did
TestEndpointResult(o) ==
    IF o.exc # "none" THEN FALSE ELSE StatusOk(o.status)

\* One iteration of the loop of main: test_endpoint on the next endpoint.
TestRequest ==
    /\ prog = "lifespan" /\ tpc = "loop" /\ Len(tseen) < Len(TestEndpoints)
    /\ LET path == TestEndpoints[Len(tseen) + 1]
           o == Get(path)
       IN  /\ tseen' = Append(tseen, [path |-> path, up |-> lpc = "Serving",
                                      status |-> o.status, body |-> o.body])
           /\ success_count' = IF TestEndpointResult(o)
                               THEN success_count + 1 ELSE success_count
    /\ UNCHANGED <<prog, tpc, texit, wvars, vvars, hvars, lvars>>

\* The loop has ended: return 0 if success_count == total_count else 1
TestDone ==
    /\ prog = "lifespan" /\ tpc = "loop" /\ Len(tseen) = Len(TestEndpoints)
    /\ texit' = IF success_count = Len(TestEndpoints) THEN 0 ELSE 1
    /\ tpc' = "done"
    /\ UNCHANGED <<prog, success_count, tseen, wvars, vvars, hvars, lvars>>

TestNext == TestRequest \/ TestDone

SequencerIdle ==
    /\ lpc = "none" /\ spc = "none" /\ neo4j_uri = <<>> /\ initCalls = 0
    /\ initResult = "none" /\ runs = 0 /\ earlierProbes = 0 /\ sexit = -1

LifespanInit ==
    /\ lpc = "Idle" /\ spc = "none" /\ neo4j_uri \in SettingsUris
    /\ initCalls = 0 /\ initResult = "none" /\ runs = 0 /\ earlierProbes = 0
    /\ sexit = -1

StartupInit ==
    /\ lpc = "Idle" /\ spc = "start" /\ neo4j_uri \in StartupUris
    /\ initCalls = 0 /\ initResult = "none" /\ runs = 0 /\ earlierProbes = 0
    /\ sexit = -1

TestIdle == tpc = "idle" /\ success_count = 0 /\ tseen = <<>> /\ texit = -1

TestInit == tpc = "loop" /\ success_count = 0 /\ tseen = <<>> /\ texit = -1

----------------------------------------------------------------------------
\* The specification: one run of one entry point

\* a direct call of wait_for_neo4j, with any arguments
DirectCall ==
    /\ prog = "wait" /\ WaitInit /\ VerifyIdle /\ HealthIdle
    /\ SequencerIdle /\ TestIdle

Init ==
    \/ DirectCall
    \/ /\ prog = "verify" /\ WaitIdle /\ VerifyInit /\ HealthIdle
       /\ SequencerIdle /\ TestIdle
    \/ /\ prog = "health" /\ WaitIdle /\ VerifyIdle /\ HealthInit
       /\ SequencerIdle /\ TestIdle
    \/ /\ prog = "lifespan" /\ WaitIdle /\ VerifyIdle /\ HealthIdle
       /\ LifespanInit /\ TestInit
    \/ /\ prog = "startup" /\ WaitIdle /\ VerifyIdle /\ HealthIdle
       /\ StartupInit /\ TestIdle

Next ==
    \/ WaitParse
    \/ WaitProbe
    \/ WaitBackoff
    \/ WaitWake
    \/ WaitCancel
    \/ LifespanStart
    \/ LifespanInitialize
    \/ LifespanWaitRaised
    \/ LifespanInitDone
    \/ LifespanShutdown
    \/ LifespanStopped
    \/ StartupCall
    \/ StartupAfterWait
    \/ StartupWaitRaised
    \/ StartupRun
    \/ StartupReturn
    \/ TestRequest
    \/ TestDone
    \/ VerifyEnv
    \/ VerifyNeo4j
    \/ VerifyHealth
    \/ VerifyEndpoint
    \/ VerifySummary
    \/ HealthCheck
    \/ HealthDone

Spec == Init /\ [][Next]_vars

\* A direct call of wait_for_neo4j in which every attempt and every sleep
\* completes: the steps of the loop other than the cancellation are taken
\* when they can be.
LiveSpec ==
    /\ DirectCall
    /\ [][WaitNext]_vars
    /\ WF_vars(WaitProbe \/ WaitBackoff \/ WaitWake)

----------------------------------------------------------------------------
\* Properties of wait_for_neo4j

RECURSIVE SumSeq(_)
SumSeq(q) == IF q = <<>> THEN 0 ELSE q[1] + SumSeq(Tail(q))

\* d * 1.2^e, exact for a whole number of seconds d and e <= SatExp
RECURSIVE Times12Pow(_, _)
Times12Pow(d, e) ==
    IF e = 0 THEN d ELSE (Times12Pow(d, e - 1) * MultNum) \div MultDen

\* min(d * 1.2^i, 10).  Every initial delay is at least DefaultRetryDelay, so
\* d * 1.2^i is at or above the cap for every i >= SatExp.
CappedDelay(d, i) == Min(Times12Pow(d, Min(i, SatExp)), MaxDelay)

\* the sum over i = 0..n-2 of min(d * 1.2^i, 10)
RECURSIVE CappedSum(_, _)
CappedSum(d, n) ==
    IF n <= 1 THEN 0 ELSE CappedSum(d, n - 1) + CappedDelay(d, n - 2)

\* C1: with max_retries = N >= 1 the driver makes at most N probe attempts
\* and at most N-1 sleeps; a sleep happens only after an attempt and is always
\* followed by another attempt (never before the first, never after the N-th),
\* so at return the number of sleeps is the number of attempts minus one.
C1_AttemptsAndSleeps ==
    (prog = "wait" /\ max_retries >= 1) =>
        /\ probes <= max_retries
        /\ Len(slept) <= max_retries - 1
        /\ Len(slept) <= probes
        /\ probes >= 1 => Len(slept) >= probes - 1
        /\ wpc = "sleeping" => probes >= 1 /\ Len(slept) = probes
        /\ (probes >= 1 /\ Len(slept) = probes) =>
               wpc \in {"sleeping", "probe", "cancelled"} /\ probes < max_retries
        /\ wpc = "returned" => Len(slept) = probes - 1

\* C1 witness: a run with N = 3 that used all three attempts and has returned
C1_Witness ==
    /\ prog = "wait" /\ wpc = "returned" /\ max_retries = 3
    /\ probes = 3 /\ Len(slept) = 2

\* C2: when every probe fails the driver returns False after exactly N
\* attempts and the total time slept is the sum over i = 0..N-2 of
\* min(d * 1.2^i, 10).
C2_AllFailTotalSleep ==
    (prog = "wait" /\ wpc = "returned" /\ successes = 0) =>
        /\ ret = "False"
        /\ probes = max_retries
        /\ SumSeq(slept) = CappedSum(delay0, max_retries)

\* C3: if the probe first succeeds on attempt k the driver returns True right
\* after attempt k, with exactly k attempts and k-1 sleeps, and nothing
\* follows; it never returns True without a successful probe.
C3_ReturnsOnFirstSuccess ==
    prog = "wait" =>
        /\ ret = "True" => firstOk >= 1
        /\ firstOk >= 1 =>
               /\ wpc = "returned" /\ ret = "True"
               /\ successes = 1
               /\ firstOk <= max_retries
               /\ probes = firstOk
               /\ Len(slept) = firstOk - 1
               /\ ~ENABLED WaitNext

\* C3 witness: three failures, then success on attempt 4, with N = 30
C3_Witness ==
    /\ prog = "wait" /\ max_retries = DefaultMaxRetries /\ ret = "True"
    /\ firstOk = 4 /\ probes = 4 /\ Len(slept) = 3

\* C4: for every positive initial delay the delays slept are non-decreasing,
\* each at most 10 seconds, and the delay slept after attempt i (0-based) is
\* min(retry_delay * 1.2^i, 10).
C4_DelaySequence ==
    prog = "wait" =>
        \A i \in 1..Len(slept) :
            /\ slept[i] <= MaxDelay
            /\ slept[i] = CappedDelay(delay0, i - 1)
            /\ i > 1 => slept[i - 1] <= slept[i]

\* C5: the endpoint parsed from the URI: bolt://neo4j:7687 gives neo4j and
\* 7687, bolt://db gives db and the default port, db:9999 gives db and 9999;
\* for bolt://H and bolt://H:P the host is H, without scheme residue.
C5_ParsedEndpoint ==
    (prog = "wait" /\ wpc \notin {"call", "raised"}) =>
        /\ uri = UriNeo4j =>
               host = <<"n", "e", "o", "4", "j">> /\ port = 7687
        /\ uri = UriDbNoPort => host = <<"d", "b">> /\ port = DefaultPort
        /\ uri = UriBare => host = <<"d", "b">> /\ port = 9999
        /\ StartsWith(uri, BoltPrefix) => host # <<>> /\ host[1] # "/"

----------------------------------------------------------------------------
\* Properties of verify_deployment.py and healthcheck.py

\* the string has a character that is not whitespace
NonBlank(v) == \E i \in 1..Len(v) : v[i] \notin Whitespace

\* the variable is present and non-blank in environment e
Present(e, n) == n \in e.set /\ NonBlank(e.val[n])

\* the URI main hands to the dependency check begins with the seven
\* characters bolt://
UriHasScheme(e) ==
    LET u == IF "NEO4J_URI" \in e.set THEN e.val["NEO4J_URI"] ELSE UriNeo4j
    IN  Len(u) >= 7 /\ \A i \in 1..7 : u[i] = BoltPrefix[i]

\* the GET was answered with status 200
Got200(o) == o.exc = "none" /\ o.status = 200

Ok200 == [status |-> 200, exc |-> "none"]

\* C6: main returns 0 exactly when all three required variables pass, the
\* URI check passes, the liveness GET returned 200 and both endpoint GETs
\* returned 200; otherwise it returns 1.
C6_ExitStatusIffOverall ==
    (prog = "verify" /\ vpc = "done") =>
        /\ exit_code \in {0, 1}
        /\ exit_code = 0 <=>
               /\ \A n \in RequiredVars : Present(env, n)
               /\ UriHasScheme(env)
               /\ Got200(http["health"])
               /\ Got200(http["root"])
               /\ Got200(http["healthcheck"])

\* C6 witness: everything passes except the liveness GET, which answers 500
C6_Witness ==
    /\ prog = "verify" /\ vpc = "done" /\ exit_code = 1
    /\ \A n \in RequiredVars : Present(env, n)
    /\ UriHasScheme(env)
    /\ http["health"] = [status |-> 500, exc |-> "none"]
    /\ http["root"] = Ok200 /\ http["healthcheck"] = Ok200

\* C7: a required variable's entry is true exactly when the variable is
\* present and non-blank, and main returns 1 whenever a required variable is
\* missing, empty or whitespace-only, whatever the other checks say.
C7_RequiredEnvDecides ==
    prog = "verify" =>
        /\ vpc \notin {"env"} =>
               \A n \in RequiredVars : env_check[n] = Present(env, n)
        /\ (vpc = "done" /\ \E n \in RequiredVars : ~Present(env, n)) =>
               exit_code = 1

\* C7 witness: only NEO4J_PASSWORD is whitespace-only, every other check
\* passes, and main has returned 1
C7_Witness ==
    /\ prog = "verify" /\ vpc = "done" /\ exit_code = 1
    /\ "NEO4J_PASSWORD" \in env.set
    /\ env.val["NEO4J_PASSWORD"] = <<" ", "\t">>
    /\ Present(env, "OPENAI_API_KEY") /\ Present(env, "NEO4J_USER")
    /\ UriHasScheme(env)
    /\ \A r \in DOMAIN http : http[r] = Ok200

\* the environments that differ from e at most in the optional variables
OptionalVariants(e) ==
    {[set |-> (e.set \ OptionalVars) \cup {n \in OptionalVars : c[n] # Unset},
      val |-> [n \in EnvNames |->
                  IF n \in OptionalVars
                  THEN (IF c[n] = Unset THEN <<>> ELSE c[n])
                  ELSE e.val[n]]] :
        c \in [OptionalVars -> OptionalValues \cup {<<>>, Unset}]}

\* C8: a run that differs only in the optional variables (set or not, and
\* with what value) and sees the same HTTP outcomes returns the same status.
C8_OptionalVarsIrrelevant ==
    (prog = "verify" /\ vpc = "done") =>
        \A e2 \in OptionalVariants(env) : MainResult(e2, http) = exit_code

\* C8 witness: no optional variable is set and main has returned 0
C8_Witness ==
    /\ prog = "verify" /\ vpc = "done" /\ exit_code = 0
    /\ env.set \cap OptionalVars = {}

\* C9: the script exits 0 when /healthcheck answered 200 and 1 for any other
\* status or any error, and no exception escapes it.
C9_HealthExitCode ==
    prog = "health" =>
        /\ hpc # "crashed"
        /\ hpc # "exited" => ENABLED (HealthCheck \/ HealthDone)
        /\ hpc = "exited" =>
               /\ hexit \in {0, 1}
               /\ hexit = 0 <=> Got200(hresp)

\* C9 witness: the server answered 204 and the script exited 1
C9_Witness ==
    /\ prog = "health" /\ hpc = "exited" /\ hexit = 1
    /\ hresp = [status |-> 204, exc |-> "none"]

\* C10: no check crashes the tool: every check yields a boolean, every GET is
\* issued and every endpoint gets an entry whatever the earlier checks did,
\* and main runs on to return 0 or 1.
C10_VerifyNeverCrashes ==
    prog = "verify" =>
        /\ vpc # "crashed"
        /\ vpc # "done" => ENABLED VerifyNext
        /\ neo4j_ok \in BOOLEAN /\ server_health \in BOOLEAN
        /\ \A n \in DOMAIN env_check : env_check[n] \in BOOLEAN
        /\ \A n \in DOMAIN api_endpoints : api_endpoints[n] \in BOOLEAN
        /\ vpc \in {"summary", "done"} =>
               /\ DOMAIN env_check = RequiredVars \cup OptionalVars
               /\ DOMAIN api_endpoints = {"root", "healthcheck"}
               /\ \A r \in DOMAIN http : http[r] # NoResponse
        /\ vpc = "done" => exit_code \in {0, 1}

\* C10 witness: nothing is set, the URI has no scheme, the liveness GET times
\* out, the root GET fails to connect, /healthcheck answers 500; main has
\* still returned, with 1
C10_Witness ==
    /\ prog = "verify" /\ vpc = "done" /\ exit_code = 1
    /\ env.set = {"NEO4J_URI"} /\ env.val["NEO4J_URI"] = UriBare
    /\ http["health"] = [status |-> 0, exc |-> "TimeoutError"]
    /\ http["root"] = [status |-> 0, exc |-> "ClientConnectorError"]
    /\ http["healthcheck"] = [status |-> 500, exc |-> "none"]

----------------------------------------------------------------------------
\* The startup sequencer

\* the position of a state in the order of Phases
Rank(p) == CHOOSE i \in 1..Len(Phases) : Phases[i] = p

AfterInitCall == {"InitializingApplication", "Serving", "ShuttingDown",
                  "Stopped"}

AfterInitDone == {"Serving", "ShuttingDown", "Stopped"}

\* C11: the hook moves through Idle, WaitingForDependency,
\* InitializingApplication, Serving, ShuttingDown, Stopped one state at a time
\* and in that order; initialize_graphiti is called at most once, only after
\* wait_for_neo4j has returned, and has been called exactly once from
\* InitializingApplication on; when the call ends, the next state is Serving,
\* whatever wait_for_neo4j returned and whether the call succeeded or raised.
C11_LifespanOrder ==
    /\ [](lpc # "none" =>
            /\ initCalls <= 1
            /\ initCalls = 1 => wpc = "returned" /\ ret \in {"True", "False"}
            /\ lpc \in AfterInitCall <=> initCalls = 1
            /\ lpc \in AfterInitDone <=> initResult \in {"ok", "raised"})
    /\ [][lpc' # lpc =>
            /\ lpc = "WaitingForDependency" /\ wpc = "returned"
                 => lpc' = "InitializingApplication"
            /\ lpc = "InitializingApplication" => lpc' = "Serving"
            /\ \/ lpc' = "Failed" /\ lpc = "WaitingForDependency"
               \/ /\ lpc \in {Phases[i] : i \in 1..Len(Phases)}
                  /\ lpc' \in {Phases[i] : i \in 1..Len(Phases)}
                  /\ Rank(lpc') = Rank(lpc) + 1]_vars

\* the hook has run to its end although the wait was exhausted and the
\* initialization raised
C11_Witness ==
    /\ prog = "lifespan" /\ lpc = "Stopped"
    /\ ret = "False" /\ probes = DefaultMaxRetries /\ initResult = "raised"

\* the wait of the entry point has been exhausted
Exhausted == wpc = "returned" /\ ret = "False"

\* C12 as stated: in every startup entry point, the lifespan hook and main of
\* startup.py, an exhausted wait is followed by the start of the application
\* and never by the exit of the process.
C12_NeverExitsOnExhaustion ==
    prog \in {"lifespan", "startup"} /\ Exhausted
        => ~(spc = "exited" /\ sexit = 1 /\ initCalls = 0)

\* C12, amended: the lifespan hook never ends the process on an exhausted
\* wait, its next step is the call of initialize_graphiti; main of startup.py
\* exits with status 1 on an exhausted wait, without starting the application.
C12_ExhaustionByEntryPoint ==
    /\ [](prog = "lifespan" => sexit = -1)
    /\ [](prog = "startup" /\ spc = "exited" /\ Exhausted /\ runs = 1
            => sexit = 1 /\ lpc = "Idle" /\ initCalls = 0)
    /\ [][lpc = "WaitingForDependency" /\ Exhausted /\ lpc' # lpc
            => /\ lpc' = "InitializingApplication"
               /\ initCalls' = initCalls + 1
               /\ sexit' = sexit /\ spc' = spc]_vars
    /\ [][spc = "waiting" /\ Exhausted /\ spc' # spc
            => spc' = "exited" /\ sexit' = 1 /\ lpc' = "Idle"]_vars

\* the hook goes on to the initialization after 30 failed attempts
C12_Witness ==
    /\ prog = "lifespan" /\ lpc = "InitializingApplication"
    /\ Exhausted /\ probes = DefaultMaxRetries /\ successes = 0

\* C13: in one start of the process, a start through main of startup.py
\* included, wait_for_neo4j has been run exactly once when the application is
\* initialized, so at most max_retries probe attempts have been made in total
\* before Serving.
C13_WaitRunsOnce ==
    lpc \in AfterInitCall
        => runs = 1 /\ earlierProbes + probes <= DefaultMaxRetries

----------------------------------------------------------------------------
\* The sockets of the probes

\* C14: the socket of an attempt has been closed after the attempt, on every
\* outcome of it: no socket is open while wait_for_neo4j sleeps, when it
\* returns, or when the next attempt begins.
C14_SocketClosedAfterAttempt ==
    wpc \in {"sleeping", "returned", "probe"} => sock # "open"

\* C15: an exception raised by the socket calls of an attempt never leaves
\* wait_for_neo4j: the attempt counts as a failed one and is followed by the
\* same backoff step as a non-zero connect result, so that the function,
\* once past the parsing of the URI, ends only by returning True or False.
C15_ProbeNeverRaises ==
    /\ [](wpc = "raised" => probes = 0)
    /\ [](wpc = "returned" => ret \in {"True", "False"})
    /\ [](sock = "open" => probes >= 1 /\ probes <= max_retries)
    /\ [][wpc = "probe" /\ wpc' # wpc /\ sock' = "open"
            => /\ wpc' = "backoff" /\ probes' = probes + 1
               /\ ret' = ret /\ UNCHANGED <<attempt, retry_delay, slept>>]_vars
    /\ [][wpc = "backoff" /\ wpc' # wpc
            => IF attempt < max_retries - 1
               THEN wpc' = "sleeping" /\ slept' = Append(slept, retry_delay)
               ELSE wpc' = "returned" /\ ret' = "False"]_vars

\* wait_for_neo4j has returned False after MaxRetries failed attempts, the
\* last of which raised
C15_Witness ==
    /\ prog = "wait" /\ wpc = "returned" /\ ret = "False" /\ sock = "open"
    /\ max_retries = MaxRetries /\ probes = MaxRetries /\ successes = 0
    /\ Len(slept) = MaxRetries - 1

----------------------------------------------------------------------------
\* The dependency check of verify_deployment.py

----------------------------------------------------------------------------
\* The liveness routes and test_deployment.py

\* every request of the test was made while the app was Serving
ServedThroughout == \A i \in 1..Len(tseen) : tseen[i].up

\* C17: while the app is Serving, GET / and GET /healthcheck answer 200 (the
\* body of /healthcheck being {'status': 'healthy'}) and change no state,
\* whatever wait_for_neo4j returned and however initialize_graphiti ended; so
\* test_deployment.py returns 0 exactly when the app was up, that is Serving,
\* at both of its requests.
C17_LivenessRoutes ==
    /\ [](\A i \in 1..Len(tseen) :
            tseen[i].up
                => /\ tseen[i].status = 200
                   /\ tseen[i].path = "healthcheck"
                        => tseen[i].body = "healthy")
    /\ [](tpc = "done" => (texit = 0 <=> ServedThroughout))
    /\ [][tseen' # tseen => UNCHANGED <<lvars, wvars>>]_vars

\* the test has passed against an app whose wait was exhausted and whose
\* initialization raised
C17_Witness ==
    /\ prog = "lifespan" /\ tpc = "done" /\ texit = 0
    /\ ret = "False" /\ initResult = "raised"

----------------------------------------------------------------------------
\* Cancellation of the wait

\* C18: when the cancellation arrives during a backoff sleep the wait is
\* aborted: the exception leaves wait_for_neo4j at once (no result, no
\* further attempt or sleep, the cancelled sleep being the last thing begun)
\* and no socket is left open.
C18_CancelledWaitIsClean ==
    wpc = "cancelled"
        => /\ ret = "none"
           /\ ~ENABLED WaitNext
           /\ Len(slept) = probes
           /\ sock # "open"

\* C18 without the socket: the abort itself, which the code does perform
C18_CancelAborts ==
    wpc = "cancelled"
        => ret = "none" /\ ~ENABLED WaitNext /\ Len(slept) = probes

----------------------------------------------------------------------------
\* Termination of the wait

\* the positions of wait_for_neo4j after the parsing of the URI
PastParsing == {"probe", "backoff", "sleeping", "returned", "cancelled"}

\* C19: wait_for_neo4j always terminates.  It never makes more than
\* max_retries attempts nor more than max_retries - 1 sleeps; with
\* max_retries = 0 it returns False without an attempt or a sleep; and, every
\* attempt and sleep completing, the loop, once entered, leads to the return
\* of True or False (or to the cancellation of a sleep).
C19_AlwaysTerminates ==
    /\ [](prog \in DriverProgs =>
            /\ probes <= max_retries
            /\ attempt < max_retries \/ attempt = 0
            /\ Len(slept) <= probes
            /\ Len(slept) < max_retries \/ slept = <<>>
            /\ max_retries = 0 /\ wpc \in PastParsing
                 => /\ wpc = "returned" /\ ret = "False"
                    /\ probes = 0 /\ slept = <<>> /\ sock = "none")
    /\ (wpc \in {"probe", "backoff", "sleeping"})
         ~> (wpc = "cancelled" \/ (wpc = "returned" /\ ret \in {"True", "False"}))

\* with max_retries = 0 the function has returned False at once
C19_Witness ==
    /\ prog = "wait" /\ max_retries = 0 /\ wpc = "returned" /\ ret = "False"
    /\ probes = 0 /\ slept = <<>>

----------------------------------------------------------------------------
\* A malformed URI

\* the URI without its bolt:// prefix, if it has one
AfterScheme(u) ==
    IF Len(u) >= 7 /\ \A i \in 1..7 : u[i] = BoltPrefix[i]
    THEN [i \in 1..(Len(u) - 7) |-> u[i + 7]] ELSE u

\* the text is an integer in decimal: an optional sign and one or more digits
\* (none of the texts of the model has surrounding whitespace)
IsIntegerText(t) ==
    LET d == IF t # <<>> /\ t[1] \in {"+", "-"} THEN Tail(t) ELSE t
    IN  /\ d # <<>>
        /\ \A i \in 1..Len(d) :
             d[i] \in {"0", "1", "2", "3", "4", "5", "6", "7", "8", "9"}

\* the URI has a ':' after its prefix, and the text after the first one is
\* not an integer
MalformedPort(u) ==
    LET r == AfterScheme(u)
    IN  \E k \in 1..Len(r) :
          /\ r[k] = ":"
          /\ \A j \in 1..(k - 1) : r[j] # ":"
          /\ ~IsIntegerText([i \in 1..(Len(r) - k) |-> r[i + k]])

\* C20: when the text after the first ':' of the URI (its prefix stripped) is
\* not an integer, wait_for_neo4j raises before any attempt or sleep and
\* returns nothing, and it raises in no other case; in lifespan the exception
\* leaves the hook: initialize_graphiti is never called and Serving is never
\* reached.
C20_MalformedUriRaises ==
    /\ [](prog \in DriverProgs /\ wpc # "idle" /\ MalformedPort(uri)
            => /\ wpc \in {"call", "raised"}
               /\ probes = 0 /\ slept = <<>> /\ ret = "none" /\ sock = "none")
    /\ [](wpc = "raised" => MalformedPort(uri))
    /\ [](lpc # "none" /\ MalformedPort(neo4j_uri)
            => /\ lpc \in {"Idle", "WaitingForDependency", "Failed"}
               /\ initCalls = 0 /\ initResult = "none")
    /\ [](lpc = "Failed" /\ wpc = "raised" => MalformedPort(neo4j_uri))
    /\ [][wpc = "call" /\ MalformedPort(uri) /\ wpc' # wpc
            => wpc' = "raised"]_vars
    /\ [][lpc = "WaitingForDependency" /\ wpc = "raised" /\ lpc' # lpc
            => lpc' = "Failed"]_vars

\* the hook has failed on a URI with two colons, before any attempt
C20_Witness ==
    /\ prog = "lifespan" /\ lpc = "Failed" /\ wpc = "raised"
    /\ neo4j_uri = UriTwoColons /\ probes = 0 /\ initCalls = 0

====
